---- MODULE Spec2Model ----
(***************************************************************************)
(* MAX14906 driver (drivers/digital-io/max14906/max14906.c): CRC5, frame  *)
(* codec, register access, channel operations, init and remove.            *)
(*                                                                         *)
(* Every driver function is an operator from a "world" record (device      *)
(* register file, descriptor fields, owned resources, caller's variables,  *)
(* the trace of collaborator calls issued by the current call) to the      *)
(* world after the call.  The collaborators (SPI transfer, GPIO, allocator)*)
(* are outside the driver: their outcomes are drawn from a plan record.    *)
(***************************************************************************)
EXTENDS Integers, Sequences, FiniteSets, TLC

(* ------------------------------------------------------------------ *)
(* Bounds of the model                                                  *)
(* ------------------------------------------------------------------ *)
\* API calls issued on a live descriptor in one behaviour
MaxCalls == 1
\* largest channel index handed to the channel operations
MaxCh == 4
\* max14906_ch_func calls issued in a row
MaxFuncs == 2

(* ------------------------------------------------------------------ *)
(* C integer operators on naturals                                      *)
(* ------------------------------------------------------------------ *)
\* a & b on 4-bit operands, bit by bit
And4 ==
    [a \in 0 .. 15, b \in 0 .. 15 |->
        (a % 2) * (b % 2)
      + 2 * ((a \div 2) % 2) * ((b \div 2) % 2)
      + 4 * ((a \div 4) % 2) * ((b \div 4) % 2)
      + 8 * (a \div 8) * (b \div 8)]

\* a & b, for operands below 2^16 (every register, mask and field of the driver)
And(a, b) ==
      And4[a % 16, b % 16]
    + 16 * And4[(a \div 16) % 16, (b \div 16) % 16]
    + 256 * And4[(a \div 256) % 16, (b \div 256) % 16]
    + 4096 * And4[(a \div 4096) % 16, (b \div 4096) % 16]

Or(a, b) == a + b - And(a, b)

Xor(a, b) == a + b - 2 * And(a, b)

\* a & ~m
AndNot(a, m) == a - And(a, m)

U8(x) == x % 256

\* value of the lowest set bit of a non-zero mask (1 << find_first_set_bit)
LowBit(m) == m - And(m, m - 1)

\* shifts stay below 32 bits for every channel index up to MaxCh
NO_OS_BIT(x) == 2 ^ x

NO_OS_GENMASK(h, l) == 2 ^ (h + 1) - 2 ^ l

no_os_field_prep(mask, v) == And(v * LowBit(mask), mask)

no_os_field_get(mask, v) == And(v, mask) \div LowBit(mask)

(* ------------------------------------------------------------------ *)
(* max14906.h                                                           *)
(* ------------------------------------------------------------------ *)
MAX14906_FRAME_SIZE == 2
MAX14906_CHANNELS == 4

MAX14906_SETOUT_REG == 0
MAX14906_DOILEVEL_REG == 2
MAX14906_OVR_LD_REG == 4
MAX14906_OPN_WIR_FLT_REG == 5
MAX14906_SHD_VDD_FLT_REG == 6
MAX14906_GLOBAL_FLT_REG == 7
MAX14906_CONFIG_DO_REG == 13
MAX14906_CONFIG_CURR_LIM == 14

MAX14906_CHIP_ADDR_MASK == NO_OS_GENMASK(7, 6)
MAX14906_ADDR_MASK == NO_OS_GENMASK(5, 1)
MAX14906_RW_MASK == NO_OS_BIT(0)

MAX14906_DOI_LEVEL_MASK(x) == NO_OS_BIT(x)
MAX14906_HIGHO_MASK(x) == NO_OS_BIT(x)
MAX14906_DO_MASK(x) == NO_OS_GENMASK(1, 0) * 2 ^ (2 * x)
MAX14906_CH_DIR_MASK(x) == NO_OS_BIT(x + 4)
MAX14906_CL_MASK(x) == NO_OS_GENMASK(1, 0) * 2 ^ (2 * x)

\* enum max14906_function
MAX14906_OUT == 0
MAX14906_IN == 1
MAX14906_HIGH_Z == 2

\* enum max14906_do_mode
MAX14906_HIGH_SIDE == 0
MAX14906_PUSH_PULL == 3

\* enum max14906_climit
MAX14906_CL_600 == 0
MAX14906_CL_130 == 1
MAX14906_CL_300 == 2
MAX14906_CL_1200 == 3

\* errno.h
EIO == 5
ENOMEM == 12
ENODEV == 19
EINVAL == 22

Byte == 0 .. 255
RegAddr == 0 .. 31
ChipAddr == 0 .. 3

(* ------------------------------------------------------------------ *)
(* CRC5 engine                                                          *)
(* ------------------------------------------------------------------ *)
crc5_start == 31
crc5_poly == 21

\* one iteration of the loops of max14906_crc_encode / max14906_crc_decode
crc5_step(crc5_result, data_bit) ==
    LET result_bit == And(crc5_result, 16) \div 16
    IN  IF data_bit # result_bit
        THEN Xor(crc5_poly, And(crc5_result * 2, 31))
        ELSE And(crc5_result * 2, 31)

\* for (i = from; i < to; i++) over bits (byte >> (7 - i)) & 1
RECURSIVE crc5_loop(_, _, _, _)
crc5_loop(crc, byte, i, to) ==
    IF i >= to THEN crc
    ELSE crc5_loop(crc5_step(crc, And(byte \div 2 ^ (7 - i), 1)), byte, i + 1, to)

\* the loops, tabulated once: over all 8 bits of a byte, over bits 5..0 of the
\* first byte from crc5_start, and over the 3 bits of extra_byte = 0
Crc5Byte == [crc \in 0 .. 31, byte \in Byte |-> crc5_loop(crc, byte, 0, 8)]
\* variant: the first loop of crc_decode starts at bit 7 of the command byte
Crc5Low6AllBits == [byte \in Byte |-> crc5_loop(crc5_start, byte, 0, 8)]

Crc5Low6 == [byte \in Byte |-> crc5_loop(crc5_start, byte, 2, 8)]
Crc5Extra == [crc \in 0 .. 31 |-> crc5_loop(crc, 0, 0, 3)]

max14906_crc_encode(data) ==
    Crc5Extra[Crc5Byte[Crc5Byte[crc5_start, data[1]], data[2]]]

\* variant: the second loop reads data[0] again instead of data[1]
max14906_crc_decode_same_byte(data) ==
    Crc5Extra[Crc5Byte[Crc5Low6[data[1]], data[1]]]

max14906_crc_decode(data) ==
    Crc5Extra[Crc5Byte[Crc5Low6[data[1]], data[2]]]

(* ------------------------------------------------------------------ *)
(* Sequencing: x = e; F(x)  (e is evaluated once, as a C statement is)  *)
(* ------------------------------------------------------------------ *)
Then(e, F(_)) == CHOOSE y \in {F(x) : x \in {e}} : TRUE

(* ------------------------------------------------------------------ *)
(* Collaborators: SPI transport backed by an in-memory register file    *)
(* ------------------------------------------------------------------ *)
Event(kind, tx, ret) == [kind |-> kind, tx |-> tx, ret |-> ret]

IsXfer(e) == e.kind = "xfer"

Xfers(trace) == SelectSeq(trace, IsXfer)

\* the device behind the transport: a frame whose CRC byte is wrong is dropped,
\* a write frame stores its data byte, a read frame is answered with a status
\* byte, the stored byte and the CRC5 of the answer
DeviceAccepts(w, len) ==
    len = 2 \/ w.buff[3] = max14906_crc_encode(w.buff)

DeviceRegs(w, len) ==
    LET addr == no_os_field_get(MAX14906_ADDR_MASK, w.buff[1])
    IN  IF And(w.buff[1], MAX14906_RW_MASK) = 1 /\ DeviceAccepts(w, len)
        THEN [w.regs EXCEPT ![addr] = w.buff[2]]
        ELSE w.regs

\* the status bits sent while the command byte is clocked in: the global fault
\* flags, with the two most significant bits clear
DeviceStatus(w) == And(w.regs[MAX14906_GLOBAL_FLT_REG], 63)

DeviceAnswer(w, c, len, corrupt) ==
    LET addr == no_os_field_get(MAX14906_ADDR_MASK, w.buff[1])
        rx0 == DeviceStatus(w)
        rx1 == w.regs[addr]
    IN  Then(max14906_crc_decode(<<rx0, rx1>>), LAMBDA crc :
          <<rx0, rx1,
            IF len # 3 THEN w.buff[3]
            ELSE IF corrupt THEN Xor(crc, c.crcXor) ELSE crc>>)

\* no_os_spi_transfer(desc->comm_desc, &xfer, 1) with xfer.tx_buff = desc->buff,
\* xfer.rx_buff = desc->buff when hasRx, xfer.bytes_number = len
no_os_spi_transfer(w0, c, len, hasRx) ==
    Then(w0, LAMBDA w :
      LET n == Len(Xfers(w.trace)) + 1
          tx == SubSeq(w.buff, 1, len)
          failed == c.failAt = n /\ c.failKind = "io"
          corrupt == c.failAt = n /\ c.failKind = "crc"
      IN  IF failed
          THEN [w EXCEPT !.trace = Append(@, Event("xfer", tx, -EIO)), !.ret = -EIO]
          ELSE [w EXCEPT !.trace = Append(@, Event("xfer", tx, 0)),
                         !.regs = DeviceRegs(w, len),
                         !.buff = IF hasRx THEN DeviceAnswer(w, c, len, corrupt) ELSE @,
                         !.ret = 0])

(* ------------------------------------------------------------------ *)
(* Frame codec and register access                                      *)
(* ------------------------------------------------------------------ *)
CommandByte(w, addr, rw) ==
    Or(Or(no_os_field_prep(MAX14906_CHIP_ADDR_MASK, w.chip_address),
          no_os_field_prep(MAX14906_ADDR_MASK, addr)),
       no_os_field_prep(MAX14906_RW_MASK, rw))

\* variant: the CRC is placed in bits 7..3 of the third byte
WriteFrameCrcTop(w, addr, val) ==
    Then(<<CommandByte(w, addr, 1), U8(val)>>, LAMBDA b :
      <<b[1], b[2], IF w.crc_en THEN 8 * max14906_crc_encode(b) ELSE w.buff[3]>>)

\* variant: a write frame whose data byte is left zero
WriteFrameNoVal(w, addr, val) ==
    Then(<<CommandByte(w, addr, 1), 0>>, LAMBDA b :
      <<b[1], b[2], IF w.crc_en THEN max14906_crc_encode(b) ELSE w.buff[3]>>)

\* desc->buff as reg_write fills it
WriteFrame(w, addr, val) ==
    Then(<<CommandByte(w, addr, 1), U8(val)>>, LAMBDA b :
      <<b[1], b[2], IF w.crc_en THEN max14906_crc_encode(b) ELSE w.buff[3]>>)

\* variant: the buffer is not cleared before the command byte is set
ReadFrameNoMemset(w, addr) ==
    Then(<<CommandByte(w, addr, 0), w.buff[2]>>, LAMBDA b :
      <<b[1], b[2], IF w.crc_en THEN max14906_crc_encode(b) ELSE w.buff[3]>>)

\* desc->buff as reg_read fills it: memset to 0, command byte, request CRC
ReadFrame(w, addr) ==
    Then(<<CommandByte(w, addr, 0), 0>>, LAMBDA b :
      <<b[1], b[2], IF w.crc_en THEN max14906_crc_encode(b) ELSE w.buff[3]>>)

FrameLen(w) == IF w.crc_en THEN MAX14906_FRAME_SIZE + 1 ELSE MAX14906_FRAME_SIZE

max14906_reg_write(w0, c, addr, val) ==
    Then(w0, LAMBDA w :
      no_os_spi_transfer([w EXCEPT !.buff = WriteFrame(w, addr, val)], c,
                         FrameLen(w), FALSE))

\* variant: the response CRC is not compared
ReadResultNoCrc(x) ==
    IF x.ret # 0 THEN x ELSE [x EXCEPT !.val = x.buff[2], !.ret = 0]

\* after the transfer: the CRC check, then *val = desc->buff[1]
ReadResult(x) ==
    IF x.ret # 0 THEN x
    ELSE IF x.crc_en /\ max14906_crc_decode(x.buff) # x.buff[3]
         THEN [x EXCEPT !.ret = -EINVAL]
         ELSE [x EXCEPT !.val = x.buff[2], !.ret = 0]

\* the result's val is what *val holds after the call
max14906_reg_read(w0, c, addr) ==
    Then(w0, LAMBDA w :
      Then(no_os_spi_transfer([w EXCEPT !.buff = ReadFrame(w, addr)], c,
                              FrameLen(w), TRUE),
           LAMBDA x : ReadResult(x)))

\* variant: the register is replaced by the new field alone
UpdateValueOverwrite(reg_val, mask, val) == And(mask, val)

\* variant: the masked bits are not cleared before the new ones are set
UpdateValueNoClear(reg_val, mask, val) == Or(reg_val, And(mask, val))

UpdateValue(reg_val, mask, val) == Or(AndNot(reg_val, mask), And(mask, val))

\* variant: the write-back is issued whatever the read returned
max14906_reg_update_always_writes(w0, c, addr, mask, val) ==
    Then(w0, LAMBDA w :
      Then(max14906_reg_read([w EXCEPT !.val = 0], c, addr), LAMBDA r :
        max14906_reg_write([r EXCEPT !.val = w.val], c, addr,
                           UpdateValue(r.val, mask, val))))

\* reg_val is a local of reg_update: the caller's val is not touched
max14906_reg_update(w0, c, addr, mask, val) ==
    Then(w0, LAMBDA w :
      Then(max14906_reg_read([w EXCEPT !.val = 0], c, addr), LAMBDA r :
        IF r.ret # 0 THEN [r EXCEPT !.val = w.val]
        ELSE max14906_reg_write([r EXCEPT !.val = w.val], c, addr,
                                UpdateValue(r.val, mask, val))))

(* ------------------------------------------------------------------ *)
(* Channel operations                                                   *)
(* ------------------------------------------------------------------ *)
max14906_ch_get(w, c, ch) ==
    IF ch >= MAX14906_CHANNELS THEN [w EXCEPT !.ret = -EINVAL]
    ELSE Then(max14906_reg_read(w, c, MAX14906_DOILEVEL_REG), LAMBDA r :
           IF r.ret # 0 THEN r
           ELSE [r EXCEPT !.val = no_os_field_get(MAX14906_DOI_LEVEL_MASK(ch), @),
                          !.ret = 0])

\* variant: no validation of the channel index
max14906_ch_set_unchecked(w, c, ch, val) ==
    max14906_reg_update(w, c, MAX14906_SETOUT_REG, MAX14906_HIGHO_MASK(ch),
                        IF val # 0 THEN MAX14906_HIGHO_MASK(ch) ELSE 0)

max14906_ch_set(w, c, ch, val) ==
    IF ch >= MAX14906_CHANNELS THEN [w EXCEPT !.ret = -EINVAL]
    ELSE max14906_reg_update(w, c, MAX14906_SETOUT_REG, MAX14906_HIGHO_MASK(ch),
                             IF val # 0 THEN MAX14906_HIGHO_MASK(ch) ELSE 0)

\* read-modify-write of the channel's direction bit in SETOUT
DirUpdate(w, c, ch, dir) ==
    max14906_reg_update(w, c, MAX14906_SETOUT_REG, MAX14906_CH_DIR_MASK(ch),
                        no_os_field_prep(MAX14906_CH_DIR_MASK(ch), dir))

\* variant: the update's mask covers the fields of all channels
ModeUpdateWholeRegister(w, c, ch, mode) ==
    max14906_reg_update(w, c, MAX14906_CONFIG_DO_REG, 255,
                        no_os_field_prep(MAX14906_DO_MASK(ch), mode))

\* read-modify-write of the channel's output-mode field in CONFIG_DO
ModeUpdate(w, c, ch, mode) ==
    max14906_reg_update(w, c, MAX14906_CONFIG_DO_REG, MAX14906_DO_MASK(ch),
                        no_os_field_prep(MAX14906_DO_MASK(ch), mode))

\* variant: the direction bit is updated before the output mode
max14906_ch_func_dir_first(w, c, ch, function) ==
    IF function = MAX14906_HIGH_Z
    THEN Then(DirUpdate(w, c, ch, 1), LAMBDA d :
           IF d.ret # 0 THEN d ELSE ModeUpdate(d, c, ch, MAX14906_PUSH_PULL))
    ELSE IF function = MAX14906_IN
    THEN Then(DirUpdate(w, c, ch, function), LAMBDA d :
           IF d.ret # 0 THEN d ELSE ModeUpdate(d, c, ch, MAX14906_HIGH_SIDE))
    ELSE DirUpdate(w, c, ch, function)

max14906_ch_func(w, c, ch, function) ==
    IF function = MAX14906_HIGH_Z
    THEN Then(ModeUpdate(w, c, ch, MAX14906_PUSH_PULL), LAMBDA m :
           IF m.ret # 0 THEN m ELSE DirUpdate(m, c, ch, 1))
    ELSE IF function = MAX14906_IN
    THEN Then(ModeUpdate(w, c, ch, MAX14906_HIGH_SIDE), LAMBDA m :
           IF m.ret # 0 THEN m ELSE DirUpdate(m, c, ch, function))
    ELSE DirUpdate(w, c, ch, function)

max14906_climit_set(w, c, ch, climit) ==
    max14906_reg_update(w, c, MAX14906_CONFIG_CURR_LIM, MAX14906_CL_MASK(ch),
                        no_os_field_prep(MAX14906_CL_MASK(ch), climit))

\* variant: the output pointer is not validated
max14906_climit_get_unchecked(w0, c, ch, climitNull) ==
    Then(w0, LAMBDA w :
      Then(max14906_reg_read([w EXCEPT !.val = 0], c, MAX14906_CONFIG_CURR_LIM),
           LAMBDA r :
             IF r.ret # 0 THEN [r EXCEPT !.val = w.val]
             ELSE [r EXCEPT !.val = no_os_field_get(MAX14906_CL_MASK(ch), @),
                            !.ret = 0]))

\* climitNull: the caller passed a null output pointer
max14906_climit_get(w0, c, ch, climitNull) ==
    Then(w0, LAMBDA w :
      IF climitNull THEN [w EXCEPT !.ret = -EINVAL]
      ELSE Then(max14906_reg_read([w EXCEPT !.val = 0], c, MAX14906_CONFIG_CURR_LIM),
                LAMBDA r :
                  IF r.ret # 0 THEN [r EXCEPT !.val = w.val]
                  ELSE [r EXCEPT !.val = no_os_field_get(MAX14906_CL_MASK(ch), @),
                                 !.ret = 0]))

(* ------------------------------------------------------------------ *)
(* Collaborators: allocator, SPI init/remove, GPIO                      *)
(* ------------------------------------------------------------------ *)
Log(w, kind, ret) == [w EXCEPT !.trace = Append(@, Event(kind, <<>>, ret)), !.ret = ret]

\* no_os_calloc(1, sizeof(*descriptor)): a zeroed descriptor or NULL
no_os_calloc(w, c) ==
    IF c.allocOk
    THEN [Log(w, "calloc", 0) EXCEPT !.mem = "live", !.buff = <<0, 0, 0>>,
                                     !.crc_en = FALSE, !.chip_address = 0,
                                     !.comm_desc = "none", !.enable = "null"]
    ELSE Log(w, "calloc", -ENOMEM)

\* ret is not changed by no_os_free
no_os_free(w) == [Log(w, "free", w.ret) EXCEPT !.mem = "freed"]

no_os_spi_init(w, c) ==
    IF c.spiInitOk THEN [Log(w, "spi_init", 0) EXCEPT !.comm_desc = "open"]
    ELSE Log(w, "spi_init", -EIO)

\* a failed remove leaves the transport as it was
no_os_spi_remove(w, c) ==
    IF c.spiRemoveOk THEN [Log(w, "spi_remove", 0) EXCEPT !.comm_desc = "closed"]
    ELSE Log(w, "spi_remove", -EIO)

\* absence of the line is not an error: the handle stays NULL and 0 is returned
no_os_gpio_get_optional(w, c) ==
    IF c.gpioGet = "ok" THEN [Log(w, "gpio_get", 0) EXCEPT !.enable = "held"]
    ELSE IF c.gpioGet = "absent" THEN Log(w, "gpio_get", 0)
    ELSE Log(w, "gpio_get", -EIO)

no_os_gpio_set_value(w, c, value) ==
    Log(w, "gpio_set_" \o value, IF c.gpioSetOk THEN 0 ELSE -EIO)

\* releases the handle; its result is ignored by its only caller
no_os_gpio_remove(w) ==
    [Log(w, "gpio_remove", w.ret) EXCEPT
        !.enable = IF @ = "held" THEN "released" ELSE @]

(* ------------------------------------------------------------------ *)
(* Lifecycle                                                            *)
(* ------------------------------------------------------------------ *)
\* A lifecycle function is a sequence of stages; the world's pc says where
\* control is after a stage: "run" (next statement), "gpio_err", "err" (the
\* labels of max14906_init) or "ret" (returned).
Goto(w, pc) == [w EXCEPT !.pc = pc]

\* descriptor = no_os_calloc(); no_os_spi_init(); crc_en = param->crc_en.
\* param: [crc_en, chip_address]; the descriptor's chip_address is never
\* assigned from param and keeps the zero of no_os_calloc
InitAcquire(w, c, param) ==
    Then(no_os_calloc(w, c), LAMBDA a :
      IF a.mem # "live" THEN Goto([a EXCEPT !.ret = -ENOMEM], "ret")
      ELSE Then(no_os_spi_init(a, c), LAMBDA s :
             IF s.ret # 0 THEN Goto(s, "err")
             ELSE Goto([s EXCEPT !.crc_en = param.crc_en], "run")))

\* get_optional, and set_value only when get_optional returned 0
InitEnable(w, c) ==
    IF w.pc # "run" THEN w
    ELSE Then(no_os_gpio_get_optional(w, c), LAMBDA g :
           IF g.ret # 0 THEN g
           ELSE Then(no_os_gpio_set_value(g, c, "HIGH"), LAMBDA s :
                  IF s.ret # 0 THEN Goto(s, "gpio_err") ELSE s))

\* variant: the global fault register is read first
FaultRegsGlobalFirst ==
    <<MAX14906_GLOBAL_FLT_REG, MAX14906_OVR_LD_REG, MAX14906_OPN_WIR_FLT_REG,
      MAX14906_SHD_VDD_FLT_REG>>

FaultRegs ==
    <<MAX14906_OVR_LD_REG, MAX14906_OPN_WIR_FLT_REG,
      MAX14906_SHD_VDD_FLT_REG, MAX14906_GLOBAL_FLT_REG>>

\* the i-th read into the local reg_val that clears a latched fault register
InitFault(w, c, i) ==
    IF w.pc # "run" THEN w
    ELSE Then(max14906_reg_read([w EXCEPT !.val = 0], c, FaultRegs[i]), LAMBDA r :
           Goto([r EXCEPT !.val = w.val], IF r.ret # 0 THEN "gpio_err" ELSE "run"))

\* variant: the channel loop leaves the current limit alone
InitChannelNoLimit(w, c, i) ==
    IF w.pc # "run" THEN w
    ELSE Then(max14906_ch_func(w, c, i, MAX14906_HIGH_Z), LAMBDA f :
           IF f.ret # 0 THEN Goto(f, "gpio_err") ELSE f)

\* one iteration of the channel loop: ch_func(i, HIGH_Z); climit_set(i, CL_130)
InitChannel(w, c, i) ==
    IF w.pc # "run" THEN w
    ELSE Then(max14906_ch_func(w, c, i, MAX14906_HIGH_Z), LAMBDA f :
           IF f.ret # 0 THEN Goto(f, "gpio_err")
           ELSE Then(max14906_climit_set(f, c, i, MAX14906_CL_130), LAMBDA l :
                  IF l.ret # 0 THEN Goto(l, "gpio_err") ELSE l))

\* variant: the transport is removed before the enable line
InitGpioErrSpiFirst(w, c) ==
    Then(no_os_spi_remove(w, c), LAMBDA s :
      Then(no_os_gpio_remove(s), LAMBDA g :
        no_os_free([g EXCEPT !.ret = w.ret])))

\* gpio_err: no_os_gpio_remove; no_os_spi_remove; err: no_os_free; return ret
InitGpioErr(w, c) ==
    Then(no_os_gpio_remove(w), LAMBDA g :
      Then(no_os_spi_remove(g, c), LAMBDA s :
        no_os_free([s EXCEPT !.ret = w.ret])))

\* *desc = descriptor; return 0;   or the error labels
InitReturn(w, c) ==
    IF w.pc = "run" THEN Goto([w EXCEPT !.desc = "desc", !.ret = 0], "ret")
    ELSE IF w.pc = "gpio_err" THEN Goto(InitGpioErr(w, c), "ret")
    ELSE IF w.pc = "err" THEN Goto(no_os_free(w), "ret")
    ELSE w

\* variant: a null descriptor is not rejected
RemoveEnterUnchecked(w, descNull) == Goto(w, "run")

\* descNull: the caller passed a null descriptor
RemoveEnter(w, descNull) ==
    IF descNull THEN Goto([w EXCEPT !.ret = -ENODEV], "ret") ELSE Goto(w, "run")

\* variant: the loop goes on after a channel failed
RemoveChannelContinue(w, c, i) ==
    IF w.pc # "run" THEN w ELSE max14906_ch_func(w, c, i, MAX14906_HIGH_Z)

\* one iteration of the loop of max14906_remove
RemoveChannel(w, c, i) ==
    IF w.pc # "run" THEN w
    ELSE Then(max14906_ch_func(w, c, i, MAX14906_HIGH_Z), LAMBDA f :
           IF f.ret # 0 THEN Goto(f, "ret") ELSE f)

\* if (desc->enable) set_value(HIGH_Z); no_os_free(desc); return 0
RemoveEnable(w, c) ==
    IF w.enable # "null"
    THEN Then(no_os_gpio_set_value(w, c, "HIGH_Z"), LAMBDA g :
           IF g.ret # 0 THEN g ELSE [no_os_free(g) EXCEPT !.ret = 0])
    ELSE [no_os_free(w) EXCEPT !.ret = 0]

\* no_os_spi_remove, then the enable line and the descriptor
RemoveRelease(w, c) ==
    IF w.pc # "run" THEN w
    ELSE Then(no_os_spi_remove(w, c), LAMBDA s :
           Goto(IF s.ret # 0 THEN s ELSE RemoveEnable(s, c), "ret"))

(* ------------------------------------------------------------------ *)
(* State                                                                *)
(* ------------------------------------------------------------------ *)
VARIABLES
    regs,          \* device register file behind the transport
    buff,          \* desc->buff
    crc_en,        \* desc->crc_en
    chip_address,  \* desc->chip_address
    mem,           \* descriptor allocation: "none", "live", "freed"
    comm_desc,     \* desc->comm_desc: "none", "open", "closed"
    enable,        \* desc->enable: "null", "held", "released"
    desc,          \* the caller's descriptor pointer: "null", "desc"
    val,           \* the caller's output variable (*val, *climit)
    ret,           \* return value of the last call
    trace,         \* collaborator calls issued by the last call, in order
    op,            \* the last call and its arguments
    pre,           \* the world before the last call
    ncalls,        \* register/channel calls issued so far
    requested,     \* per channel, the function the caller last obtained
    acc,           \* two accessors, each inside one max14906_reg_update
    core           \* JESD204 core: its Reset register and resetCore's locals

vars ==
    <<regs, buff, crc_en, chip_address, mem, comm_desc, enable, desc, val, ret,
      trace, op, pre, ncalls, requested, acc, core>>

World ==
    [regs |-> regs, buff |-> buff, crc_en |-> crc_en, chip_address |-> chip_address,
     mem |-> mem, comm_desc |-> comm_desc, enable |-> enable, desc |-> desc,
     val |-> val, ret |-> ret, trace |-> <<>>, pc |-> "run"]

Snapshot ==
    [regs |-> regs, buff |-> buff, mem |-> mem, comm_desc |-> comm_desc,
     enable |-> enable, desc |-> desc, val |-> val]

Op(name, ch, addr, arg, null, c) ==
    [name |-> name, ch |-> ch, addr |-> addr, arg |-> arg, null |-> null, c |-> c]

\* no function obtained yet, or the last request for the channel failed
NoFunction == MAX14906_HIGH_Z + 1

\* max14906_init that returns 0 has put every channel in HIGH_Z; a ch_func
\* that returns 0 has put its channel in the function asked for
Requested(w, o) ==
    IF o.name = "init" /\ w.ret = 0
    THEN [ch \in 0 .. MAX14906_CHANNELS - 1 |-> MAX14906_HIGH_Z]
    ELSE IF o.name = "ch_func"
    THEN [requested EXCEPT ![o.ch] = IF w.ret = 0 THEN o.arg ELSE NoFunction]
    ELSE requested

\* an accessor's position in max14906_reg_update ("idle", "read": about to
\* read, "write": about to write back, "done"), its arguments, its local
\* reg_val, its return value, and whether the register was written by the
\* other accessor between its read and its write
Accessors == {1, 2}
Idle ==
    [pc |-> "idle", addr |-> 0, mask |-> 0, val |-> 0, reg_val |-> 0, ret |-> 0,
     raced |-> FALSE]

\* resetCore not entered
IdleCore ==
    [pc |-> "idle", Reset |-> 0, tries |-> 0, reads |-> 0, last |-> 0,
     status |-> "none"]

CommitAll(w0, o, n, a) ==
    \E w \in {w0} :
    /\ regs' = w.regs
    /\ buff' = w.buff
    /\ crc_en' = w.crc_en
    /\ chip_address' = w.chip_address
    /\ mem' = w.mem
    /\ comm_desc' = w.comm_desc
    /\ enable' = w.enable
    /\ desc' = w.desc
    /\ val' = w.val
    /\ ret' = w.ret
    /\ trace' = w.trace
    /\ op' = o
    /\ pre' = Snapshot
    /\ ncalls' = n
    /\ requested' = Requested(w, o)
    /\ acc' = a
    /\ core' = core

Commit(w0, o, n) == CommitAll(w0, o, n, acc)

(* ------------------------------------------------------------------ *)
(* Inputs                                                               *)
(* ------------------------------------------------------------------ *)
NoFail ==
    [failAt |-> 0, failKind |-> "io", crcXor |-> 0, allocOk |-> TRUE,
     spiInitOk |-> TRUE, gpioGet |-> "ok", gpioSetOk |-> TRUE, spiRemoveOk |-> TRUE]

\* plans in which transfer n <= maxN fails, or answers with a corrupted CRC byte
\* (only where a CRC byte is transferred)
XferPlans(maxN, crc, flips) ==
    {NoFail}
    \cup {[NoFail EXCEPT !.failAt = n] : n \in 1 .. maxN}
    \cup IF crc
         THEN {[NoFail EXCEPT !.failAt = n, !.failKind = "crc", !.crcXor = x] :
                 n \in 1 .. maxN, x \in flips}
         ELSE {}

\* transfers of a complete max14906_init and max14906_remove
InitXfers == 4 + MAX14906_CHANNELS * 6
RemoveXfers == MAX14906_CHANNELS * 4

SingleBitFlips == {2 ^ k : k \in 0 .. 7}

InitPlans(crc) ==
    {[NoFail EXCEPT !.allocOk = FALSE], [NoFail EXCEPT !.spiInitOk = FALSE]}
    \cup {[NoFail EXCEPT !.gpioGet = g, !.gpioSetOk = FALSE] : g \in {"ok", "absent"}}
    \cup {[p EXCEPT !.gpioGet = g] :
            p \in XferPlans(InitXfers, crc, {4}), g \in {"ok", "absent", "fail"}}

RemovePlans(crc) ==
    {[NoFail EXCEPT !.spiRemoveOk = FALSE], [NoFail EXCEPT !.gpioSetOk = FALSE]}
    \cup XferPlans(RemoveXfers, crc, {4})

\* initial register files: the reset state and a bit pattern
Patterns == {0, 165}
InitRegs == {[a \in RegAddr |-> p] : p \in Patterns}

InitParams == [crc_en : BOOLEAN, chip_address : ChipAddr]

Channels == 0 .. MaxCh
Functions == {MAX14906_OUT, MAX14906_IN, MAX14906_HIGH_Z}
Climits == {MAX14906_CL_600, MAX14906_CL_130, MAX14906_CL_300, MAX14906_CL_1200}
WriteAddrs == {MAX14906_SETOUT_REG, MAX14906_CONFIG_DO_REG, MAX14906_DOILEVEL_REG}
WriteVals == {0, 90, 255}

(* ------------------------------------------------------------------ *)
(* Actions: one per API call                                            *)
(* ------------------------------------------------------------------ *)
\* One behaviour is one use of the driver: max14906_init, then either up to
\* MaxCalls register/channel calls or max14906_remove; max14906_remove(NULL) is
\* tried once wherever the caller holds no descriptor.
Live == desc = "desc" /\ mem = "live" /\ comm_desc = "open"
Fresh == mem = "none" /\ op.name = "none"
CanCall == Live /\ ncalls < MaxCalls /\ op.name # "remove"

\* the world before max14906_init, with the device's register file in R
Boot(R) ==
    /\ regs \in R
    /\ buff = <<0, 0, 0>>
    /\ crc_en = FALSE
    /\ chip_address = 0
    /\ mem = "none"
    /\ comm_desc = "none"
    /\ enable = "null"
    /\ desc = "null"
    /\ val = 238
    /\ ret = 0
    /\ trace = <<>>
    /\ op = Op("none", 0, 0, 0, FALSE, NoFail)
    /\ pre = Snapshot
    /\ ncalls = 0
    /\ requested = [ch \in 0 .. MAX14906_CHANNELS - 1 |-> NoFunction]
    /\ acc = [a \in Accessors |-> Idle]
    /\ core = IdleCore

Init == Boot(InitRegs)

\* max14906_init, stage by stage
DoInit ==
    /\ Fresh
    /\ \E param \in InitParams : \E c \in InitPlans(param.crc_en) :
       \E a \in {InitEnable(InitAcquire(World, c, param), c)} :
       \E f1 \in {InitFault(a, c, 1)} : \E f2 \in {InitFault(f1, c, 2)} :
       \E f3 \in {InitFault(f2, c, 3)} : \E f4 \in {InitFault(f3, c, 4)} :
       \E k0 \in {InitChannel(f4, c, 0)} : \E k1 \in {InitChannel(k0, c, 1)} :
       \E k2 \in {InitChannel(k1, c, 2)} : \E k3 \in {InitChannel(k2, c, 3)} :
          Commit(InitReturn(k3, c),
                 Op("init", 0, 0, param.chip_address, param.crc_en, c), ncalls)

RegWrite ==
    /\ CanCall
    /\ \E addr \in WriteAddrs, v \in WriteVals : \E c \in XferPlans(1, FALSE, {}) :
          Commit(max14906_reg_write(World, c, addr, v),
                 Op("reg_write", 0, addr, v, FALSE, c), ncalls + 1)

RegRead ==
    /\ CanCall
    /\ \E addr \in WriteAddrs : \E c \in XferPlans(1, crc_en, {1, 128, 255}) :
          Commit(max14906_reg_read(World, c, addr),
                 Op("reg_read", 0, addr, 0, FALSE, c), ncalls + 1)

ChGet ==
    /\ CanCall
    /\ \E ch \in Channels : \E c \in XferPlans(1, FALSE, {}) :
          Commit(max14906_ch_get(World, c, ch),
                 Op("ch_get", ch, 0, 0, FALSE, c), ncalls + 1)

ChSet ==
    /\ CanCall
    /\ \E ch \in Channels, v \in {0, 1} : \E c \in XferPlans(2, FALSE, {}) :
          Commit(max14906_ch_set(World, c, ch, v),
                 Op("ch_set", ch, 0, v, FALSE, c), ncalls + 1)

ChFunc ==
    /\ CanCall
    /\ \E ch \in 0 .. MAX14906_CHANNELS - 1, f \in Functions :
       \E c \in XferPlans(4, FALSE, {}) :
          Commit(max14906_ch_func(World, c, ch, f),
                 Op("ch_func", ch, 0, f, FALSE, c), ncalls + 1)

ClimitSet ==
    /\ CanCall
    /\ \E ch \in Channels, cl \in Climits : \E c \in XferPlans(2, FALSE, {}) :
          Commit(max14906_climit_set(World, c, ch, cl),
                 Op("climit_set", ch, 0, cl, FALSE, c), ncalls + 1)

ClimitGet ==
    /\ CanCall
    /\ \E ch \in Channels, null \in BOOLEAN : \E c \in XferPlans(1, crc_en, {4}) :
          Commit(max14906_climit_get(World, c, ch, null),
                 Op("climit_get", ch, 0, 0, null, c), ncalls + 1)

\* max14906_remove(desc), stage by stage
Remove ==
    /\ Live /\ op.name = "init"
    /\ \E c \in RemovePlans(crc_en) :
       \E r0 \in {RemoveChannel(RemoveEnter(World, FALSE), c, 0)} :
       \E r1 \in {RemoveChannel(r0, c, 1)} : \E r2 \in {RemoveChannel(r1, c, 2)} :
       \E r3 \in {RemoveChannel(r2, c, 3)} :
          Commit(RemoveRelease(r3, c), Op("remove", 0, 0, 0, FALSE, c), ncalls)

\* max14906_remove(NULL): the caller holds no descriptor
RemoveNull ==
    /\ desc = "null" /\ op.name # "remove"
    /\ \E r0 \in {RemoveChannel(RemoveEnter(World, TRUE), NoFail, 0)} :
       \E r1 \in {RemoveChannel(r0, NoFail, 1)} : \E r2 \in {RemoveChannel(r1, NoFail, 2)} :
       \E r3 \in {RemoveChannel(r2, NoFail, 3)} :
          Commit(RemoveRelease(r3, NoFail), Op("remove", 0, 0, 0, TRUE, NoFail), ncalls)

(* ------------------------------------------------------------------ *)
(* Register round trips: init, one reg_write of any byte to any address,*)
(* then reg_read of that address                                        *)
(* ------------------------------------------------------------------ *)
IoParams == [crc_en : BOOLEAN, chip_address : {0}]
IoInitPlans == {NoFail, [NoFail EXCEPT !.failAt = 1]}

DoInitIo ==
    /\ Fresh
    /\ \E param \in IoParams : \E c \in IoInitPlans :
       \E a \in {InitEnable(InitAcquire(World, c, param), c)} :
       \E f1 \in {InitFault(a, c, 1)} : \E f2 \in {InitFault(f1, c, 2)} :
       \E f3 \in {InitFault(f2, c, 3)} : \E f4 \in {InitFault(f3, c, 4)} :
       \E k0 \in {InitChannel(f4, c, 0)} : \E k1 \in {InitChannel(k0, c, 1)} :
       \E k2 \in {InitChannel(k1, c, 2)} : \E k3 \in {InitChannel(k2, c, 3)} :
          Commit(InitReturn(k3, c),
                 Op("init", 0, 0, param.chip_address, param.crc_en, c), ncalls)

RegWriteAny ==
    /\ Live /\ op.name = "init"
    /\ \E addr \in RegAddr, v \in Byte : \E c \in XferPlans(1, FALSE, {}) :
          Commit(max14906_reg_write(World, c, addr, v),
                 Op("reg_write", 0, addr, v, FALSE, c), ncalls + 1)

\* op.arg keeps the byte the preceding reg_write was given
RegReadBack ==
    /\ Live /\ op.name = "reg_write" /\ ret = 0
    /\ \E c \in XferPlans(1, crc_en, SingleBitFlips \cup {3, 31, 255}) :
          Commit(max14906_reg_read(World, c, op.addr),
                 Op("reg_read", 0, op.addr, op.arg, FALSE, c), ncalls + 1)

NextRegIo ==
    \/ DoInitIo
    \/ RegWriteAny
    \/ RegReadBack

SpecRegIo == Init /\ [][NextRegIo]_vars

Next ==
    \/ DoInit
    \/ RegWrite
    \/ RegRead
    \/ ChGet
    \/ ChSet
    \/ ChFunc
    \/ ClimitSet
    \/ ClimitGet
    \/ Remove
    \/ RemoveNull

Spec == Init /\ [][Next]_vars

(* ------------------------------------------------------------------ *)
(* Power-up: max14906_init against any contents of the three registers *)
(* it configures                                                        *)
(* ------------------------------------------------------------------ *)
PowerUpBytes == {0, 90, 165, 255}
PowerUpRegs ==
    {[a \in RegAddr |->
        IF a = MAX14906_SETOUT_REG THEN s
        ELSE IF a = MAX14906_CONFIG_DO_REG THEN d
        ELSE IF a = MAX14906_CONFIG_CURR_LIM THEN l
        ELSE 0] : s \in PowerUpBytes, d \in PowerUpBytes, l \in PowerUpBytes}

SpecPowerUp == Boot(PowerUpRegs) /\ [][DoInitIo]_vars

(* ------------------------------------------------------------------ *)
(* Properties                                                           *)
(* ------------------------------------------------------------------ *)
LastXfer == trace[Len(trace)]

\* C1: a successful reg_write(addr, val) followed by reg_read(addr), with no
\* transfer failing and the response CRC computed honestly, returns 0 and
\* delivers val, for every address 0x00..0x1F and every byte, CRC on or off
\* (in SpecRegIo the read's op.arg is the byte the write was given).
C1_RoundTrip ==
    (op.name = "reg_read" /\ op.c = NoFail) => (ret = 0 /\ val = op.arg)

C1_Witness ==
    /\ op.name = "reg_read" /\ op.c = NoFail /\ crc_en
    /\ op.addr = 31 /\ op.arg = 165 /\ pre.val = 238
    /\ ret = 0 /\ val = 165

\* C2: with CRC enabled, when the transfer of a reg_read succeeds but byte 2
\* of the response is not the decode-CRC5 of response bytes 0 and 1, reg_read
\* returns -EINVAL and the caller's output value is what it was before.
C2_CrcMismatch ==
    (/\ op.name = "reg_read" /\ crc_en
     /\ LastXfer.ret = 0
     /\ buff[3] # max14906_crc_decode(buff))
    => (ret = -EINVAL /\ val = pre.val)

C2_Witness ==
    /\ op.name = "reg_read" /\ crc_en
    /\ op.c.failKind = "crc" /\ op.c.crcXor = 16
    /\ LastXfer.ret = 0
    /\ buff[2] = 165 /\ buff[3] = Xor(max14906_crc_decode(buff), 16)
    /\ pre.val = 238 /\ val = 238 /\ ret = -EINVAL

\* C3: ch_get and ch_set with a channel index >= 4 return -EINVAL and issue no
\* transfer: the device registers and the scratch buffer are unchanged.
C3_ChannelBounds ==
    (op.name \in {"ch_get", "ch_set"} /\ op.ch >= MAX14906_CHANNELS)
    => (ret = -EINVAL /\ trace = <<>> /\ regs = pre.regs /\ buff = pre.buff)

C3_Witness ==
    /\ op.name = "ch_set" /\ op.ch = MAX14906_CHANNELS /\ op.arg = 1
    /\ ret = -EINVAL /\ trace = <<>> /\ buff = pre.buff

\* C4: climit_set, and climit_get with a non-null output pointer, with a channel
\* index >= 4 return -EINVAL and issue no transfer.
C4_ClimitBounds ==
    (op.name \in {"climit_set", "climit_get"} /\ ~op.null
     /\ op.ch >= MAX14906_CHANNELS)
    => (ret = -EINVAL /\ trace = <<>>)

\* C5: climit_get with a null output pointer returns -EINVAL for every channel
\* index and issues no transfer.
C5_ClimitNull ==
    (op.name = "climit_get" /\ op.null)
    => (ret = -EINVAL /\ trace = <<>> /\ regs = pre.regs /\ buff = pre.buff)

C5_Witness ==
    /\ op.name = "climit_get" /\ op.null /\ op.ch = 2
    /\ ret = -EINVAL /\ trace = <<>>

\* the transfers of the last call that carry a write frame for register addr
IsWriteTo(e, addr) ==
    /\ e.kind = "xfer"
    /\ And(e.tx[1], MAX14906_RW_MASK) = 1
    /\ no_os_field_get(MAX14906_ADDR_MASK, e.tx[1]) = addr

WritesTo(addr) == {i \in DOMAIN trace : IsWriteTo(trace[i], addr)}

\* C6: in a ch_func call for HIGH_Z or INPUT every write of the direction bit
\* (SETOUT) comes strictly after a write of the output mode (CONFIG_DO), and a
\* call that returns 0 has issued both.
C6_ModeBeforeDirection ==
    (op.name = "ch_func" /\ op.arg \in {MAX14906_HIGH_Z, MAX14906_IN})
    => /\ \A d \in WritesTo(MAX14906_SETOUT_REG) :
             \E m \in WritesTo(MAX14906_CONFIG_DO_REG) : m < d
       /\ ret = 0 => WritesTo(MAX14906_SETOUT_REG) # {}

C6_Witness ==
    /\ op.name = "ch_func" /\ op.arg = MAX14906_HIGH_Z /\ ret = 0
    /\ WritesTo(MAX14906_CONFIG_DO_REG) = {2}
    /\ WritesTo(MAX14906_SETOUT_REG) = {4}

\* what a read-back of channel ch finds
ChannelMode(ch) ==
    no_os_field_get(MAX14906_DO_MASK(ch),
                    max14906_reg_read(World, NoFail, MAX14906_CONFIG_DO_REG).val)

ChannelDir(ch) ==
    no_os_field_get(MAX14906_CH_DIR_MASK(ch),
                    max14906_reg_read(World, NoFail, MAX14906_SETOUT_REG).val)

ChannelLimit(ch) == max14906_climit_get(World, NoFail, ch, FALSE).val

\* C7: after max14906_init returns 0, whatever the registers held before, each
\* of the 4 channels reads back as HIGH_Z (output mode push-pull, direction
\* bit 1) with the current limit MAX14906_CL_130.
C7_InitHighZ ==
    (op.name = "init" /\ ret = 0)
    => \A ch \in 0 .. MAX14906_CHANNELS - 1 :
          /\ ChannelMode(ch) = MAX14906_PUSH_PULL
          /\ ChannelDir(ch) = 1
          /\ ChannelLimit(ch) = MAX14906_CL_130

C7_Witness ==
    /\ op.name = "init" /\ ret = 0 /\ crc_en
    /\ pre.regs[MAX14906_CONFIG_DO_REG] = 90
    /\ pre.regs[MAX14906_SETOUT_REG] = 165
    /\ pre.regs[MAX14906_CONFIG_CURR_LIM] = 255
    /\ regs[MAX14906_CONFIG_DO_REG] = 255
    /\ regs[MAX14906_SETOUT_REG] = 245
    /\ regs[MAX14906_CONFIG_CURR_LIM] = 85

\* C8: max14906_remove(NULL) returns -ENODEV and does nothing else: no
\* transfer, no GPIO call, no release, no free.
C8_RemoveNull ==
    (op.name = "remove" /\ op.null)
    => (ret = -ENODEV /\ trace = <<>> /\ Snapshot = pre)

C8_Witness ==
    /\ op.name = "remove" /\ op.null /\ ret = -ENODEV
    /\ mem = "freed" /\ comm_desc = "closed" /\ trace = <<>>

EventKinds == [i \in DOMAIN trace |-> trace[i].kind]

Count(kind) == Cardinality({i \in DOMAIN trace : trace[i].kind = kind})

Returned(kind, r) == \E i \in DOMAIN trace : trace[i].kind = kind /\ trace[i].ret = r

\* C9: when max14906_init fails after no_os_spi_init succeeded, it has called
\* no_os_gpio_remove, then no_os_spi_remove, then no_os_free, once each and
\* as its last three calls, and the caller's descriptor pointer is not written;
\* when no_os_spi_init fails, only no_os_free follows.
C9_InitUnwind ==
    (op.name = "init" /\ ret # 0)
    => /\ desc = "null"
       /\ Returned("spi_init", 0) =>
             /\ Len(trace) >= 3
             /\ SubSeq(EventKinds, Len(trace) - 2, Len(trace))
                   = <<"gpio_remove", "spi_remove", "free">>
             /\ Count("gpio_remove") = 1 /\ Count("spi_remove") = 1
             /\ Count("free") = 1
             /\ enable # "held" /\ comm_desc = "closed" /\ mem = "freed"
       /\ Returned("spi_init", -EIO) =>
             /\ EventKinds = <<"calloc", "spi_init", "free">>
             /\ ret = -EIO /\ mem = "freed" /\ comm_desc = "none"

C9_Witness ==
    /\ op.name = "init" /\ ret = -EIO /\ op.c.failAt = InitXfers
    /\ Returned("spi_init", 0)
    /\ enable = "released" /\ comm_desc = "closed" /\ mem = "freed"
    /\ desc = "null"

\* C10: after max14906_remove returns 0 on a descriptor created by init, the
\* transport, the enable GPIO handle (when one was acquired) and the
\* descriptor memory have all been released.
C10_RemoveReleasesAll ==
    (op.name = "remove" /\ ~op.null /\ ret = 0)
    => (comm_desc = "closed" /\ mem = "freed" /\ enable # "held")

\* the plan of the last call makes transfer n fail: the transport returns an
\* error, or (CRC enabled) the answer to a read carries a wrong CRC byte; in a
\* read-modify-write sequence the odd transfers are the reads
PlanFails(n) ==
    /\ op.c.failAt = n
    /\ \/ op.c.failKind = "io"
       \/ op.c.failKind = "crc" /\ crc_en /\ n % 2 = 1

\* C11: when forcing a channel to HIGH_Z fails in max14906_remove (transfer n
\* of the loop fails), remove returns that error at once: the failing transfer
\* is the last thing it did, so the later channels get no transfer, the
\* transport is not removed, the enable GPIO is not touched and the descriptor
\* is not freed.
C11_RemoveAborts ==
    (op.name = "remove" /\ ~op.null /\ \E n \in 1 .. RemoveXfers : PlanFails(n))
    => /\ Len(trace) = op.c.failAt
       /\ \A i \in DOMAIN trace : IsXfer(trace[i])
       /\ ret = (IF op.c.failKind = "io" THEN -EIO ELSE -EINVAL)
       /\ comm_desc = "open" /\ mem = "live" /\ desc = "desc"
       /\ enable = pre.enable

C11_Witness ==
    /\ op.name = "remove" /\ ~op.null /\ PlanFails(6)
    /\ ret = -EIO /\ Len(trace) = 6
    /\ enable = "held" /\ comm_desc = "open" /\ mem = "live"

(* ------------------------------------------------------------------ *)
(* Register updates: init, then one max14906_reg_update                 *)
(* ------------------------------------------------------------------ *)
UpdateAddrs ==
    {MAX14906_SETOUT_REG, MAX14906_DOILEVEL_REG, MAX14906_CONFIG_DO_REG,
     MAX14906_CONFIG_CURR_LIM}
UpdateMasks == {0, 1, 12, 48, 165, 255}
\* uint32_t val: bits outside the mask and above bit 7 included
UpdateVals == {0, 4, 90, 255, 421}

\* op.arg keeps the mask and the value
RegUpdate ==
    /\ Live /\ op.name = "init"
    /\ \E addr \in UpdateAddrs, m \in UpdateMasks, v \in UpdateVals :
       \E c \in XferPlans(2, crc_en, {4}) :
          Commit(max14906_reg_update(World, c, addr, m, v),
                 Op("reg_update", 0, addr, [mask |-> m, val |-> v], FALSE, c),
                 ncalls + 1)

NextUpdate ==
    \/ DoInitIo
    \/ RegUpdate

SpecUpdate == Init /\ [][NextUpdate]_vars

\* C12: a successful reg_update(addr, mask, val) on a register holding old
\* leaves it holding (old AND NOT mask) OR (mask AND val): the bits outside
\* mask are unchanged, and so is every other register.
C12_UpdateEffect ==
    (op.name = "reg_update" /\ ret = 0)
    => /\ regs[op.addr] = Or(AndNot(pre.regs[op.addr], op.arg.mask),
                             And(op.arg.mask, op.arg.val))
       /\ And(regs[op.addr], 255 - op.arg.mask)
             = And(pre.regs[op.addr], 255 - op.arg.mask)
       /\ \A a \in RegAddr \ {op.addr} : regs[a] = pre.regs[a]

C12_Witness ==
    /\ op.name = "reg_update" /\ ret = 0
    /\ op.addr = MAX14906_SETOUT_REG /\ op.arg = [mask |-> 165, val |-> 90]
    /\ pre.regs[op.addr] = 245 /\ regs[op.addr] = 80

\* the frames transferred by the last call
Frames == {trace[i].tx : i \in {j \in DOMAIN trace : IsXfer(trace[j])}}

\* C13: every frame max14906_init sends through the descriptor it builds
\* carries the chip address of the init configuration (op.arg) in bits 7..6
\* of its command byte, next to a register address and the RW bit.
C13_ChipAddress ==
    (op.name = "init")
    => \A f \in Frames :
          /\ no_os_field_get(MAX14906_CHIP_ADDR_MASK, f[1]) = op.arg
          /\ no_os_field_get(MAX14906_ADDR_MASK, f[1]) \in RegAddr
          /\ no_os_field_get(MAX14906_RW_MASK, f[1]) \in {0, 1}

\* C14 as stated: with CRC enabled, byte 2 of every transmitted frame has the
\* CRC5 in bits 7..3 and zero in bits 2..0.
C14_CrcTopBits ==
    \A f \in Frames :
       Len(f) = 3 => (f[3] % 8 = 0 /\ f[3] \div 8 = max14906_crc_encode(f))

\* C14 amended: with CRC enabled, byte 2 of every transmitted frame is the
\* CRC5 of bytes 0 and 1 in bits 4..0, with bits 7..5 zero.
C14_CrcLowBits ==
    \A f \in Frames :
       Len(f) = 3 => (f[3] = max14906_crc_encode(f) /\ f[3] \div 32 = 0)

C14_Witness ==
    /\ op.name = "reg_write" /\ crc_en /\ ret = 0
    /\ Len(trace) = 1 /\ Len(LastXfer.tx) = 3
    /\ LastXfer.tx[3] = max14906_crc_encode(LastXfer.tx)
    /\ LastXfer.tx[3] % 8 # 0

\* the most transfers a call issues
MaxXfers ==
    [reg_write |-> 1, reg_read |-> 1, ch_get |-> 1, climit_get |-> 1,
     ch_set |-> 2, climit_set |-> 2, ch_func |-> 4]

\* C15: reg_write and reg_read issue exactly one transfer; in every register
\* or channel call a failed transfer is the last one issued and its error
\* code is what the call returns.
C15_FailFast ==
    (op.name \in DOMAIN MaxXfers)
    => /\ op.name \in {"reg_write", "reg_read"} => Len(trace) = 1
       /\ Len(trace) <= MaxXfers[op.name]
       /\ \A i \in DOMAIN trace :
             /\ IsXfer(trace[i])
             /\ trace[i].ret # 0 => (i = Len(trace) /\ ret = trace[i].ret)

C15_Witness ==
    /\ op.name = "ch_func" /\ op.arg = MAX14906_HIGH_Z
    /\ Len(trace) = 1 /\ LastXfer.ret = -EIO /\ ret = -EIO
    /\ regs = pre.regs

(* ------------------------------------------------------------------ *)
(* Function changes: init, then up to MaxFuncs calls of max14906_ch_func*)
(* ------------------------------------------------------------------ *)
\* no failure, or the direction read fails after the mode was written
FuncPlans == {NoFail, [NoFail EXCEPT !.failAt = 3]}

ChFuncSeq ==
    /\ Live /\ ncalls < MaxFuncs
    /\ \E ch \in 0 .. MAX14906_CHANNELS - 1, f \in Functions : \E c \in FuncPlans :
          Commit(max14906_ch_func(World, c, ch, f),
                 Op("ch_func", ch, 0, f, FALSE, c), ncalls + 1)

NextFunc ==
    \/ DoInitIo
    \/ ChFuncSeq

SpecFunc == Init /\ [][NextFunc]_vars

\* the function state the two register fields of channel ch stand for
DerivedFunction(ch) ==
    IF ChannelMode(ch) = MAX14906_PUSH_PULL /\ ChannelDir(ch) = 1
    THEN MAX14906_HIGH_Z
    ELSE IF ChannelMode(ch) = MAX14906_HIGH_SIDE /\ ChannelDir(ch) = 1
    THEN MAX14906_IN
    ELSE IF ChannelMode(ch) = MAX14906_PUSH_PULL /\ ChannelDir(ch) = 0
    THEN MAX14906_OUT
    ELSE NoFunction

\* C16 as stated: after successful ch_func calls, the function state derived
\* from each channel's mode and direction fields (HIGH_Z = push-pull with
\* direction 1, INPUT = high-side with direction 1, OUTPUT = push-pull with
\* direction 0) is the function last requested for the channel.
C16_FunctionState ==
    \A ch \in 0 .. MAX14906_CHANNELS - 1 :
       requested[ch] # NoFunction => DerivedFunction(ch) = requested[ch]

\* C16 amended: after successful ch_func calls, each channel's direction bit
\* is 0 when OUTPUT was last requested and 1 otherwise, its mode is push-pull
\* after HIGH_Z and high-side after INPUT, and a request for OUTPUT leaves the
\* mode register as it was.
C16_FunctionFields ==
    /\ \A ch \in 0 .. MAX14906_CHANNELS - 1 :
          requested[ch] # NoFunction
          => /\ ChannelDir(ch) = (IF requested[ch] = MAX14906_OUT THEN 0 ELSE 1)
             /\ requested[ch] = MAX14906_HIGH_Z
                   => ChannelMode(ch) = MAX14906_PUSH_PULL
             /\ requested[ch] = MAX14906_IN
                   => ChannelMode(ch) = MAX14906_HIGH_SIDE
    /\ (op.name = "ch_func" /\ op.arg = MAX14906_OUT)
          => regs[MAX14906_CONFIG_DO_REG] = pre.regs[MAX14906_CONFIG_DO_REG]

C16_Witness ==
    /\ op.name = "ch_func" /\ op.ch = 1 /\ op.arg = MAX14906_OUT /\ ret = 0
    /\ requested[0] = MAX14906_HIGH_Z /\ requested[1] = MAX14906_OUT
    /\ pre.regs[MAX14906_SETOUT_REG] \div 32 % 2 = 1
    /\ ChannelMode(1) = MAX14906_HIGH_SIDE /\ ChannelDir(1) = 0

\* C17: every transfer is 2 bytes long when the descriptor's CRC flag is off
\* and 3 bytes when it is on, every byte of it was set by the call that
\* issues it (command byte; data byte, zero in a read request; CRC byte of
\* these two when enabled), and during init the flag is the one of the init
\* configuration (op.null).
C17_FrameLength ==
    /\ \A f \in Frames :
          /\ Len(f) = (IF crc_en THEN 3 ELSE 2)
          /\ And(f[1], MAX14906_RW_MASK) = 0 => f[2] = 0
          /\ Len(f) = 3 => f[3] = max14906_crc_encode(f)
    /\ (op.name = "init" /\ Frames # {}) => crc_en = op.null
    /\ op.name = "reg_write"
          => \A f \in Frames :
                /\ f[2] = U8(op.arg)
                /\ no_os_field_get(MAX14906_ADDR_MASK, f[1]) = op.addr
                /\ And(f[1], MAX14906_RW_MASK) = 1

C17_Witness ==
    /\ op.name = "ch_set" /\ crc_en /\ ret = 0 /\ Len(trace) = 2
    /\ pre.buff[2] # 0
    /\ trace[1].tx = <<0, 0, max14906_crc_encode(<<0, 0>>)>>
    /\ Len(trace[2].tx) = 3

(* ------------------------------------------------------------------ *)
(* Two accessors in max14906_reg_update on one register, their         *)
(* transfers interleaved in any order                                   *)
(* ------------------------------------------------------------------ *)
\* ret = max14906_reg_read(desc, addr, &reg_val): the result's val is reg_val
UpdateReadStep(w, c, addr) == max14906_reg_read([w EXCEPT !.val = 0], c, addr)

\* reg_val &= ~mask; reg_val |= mask & val; return max14906_reg_write(...)
UpdateWriteStep(w, c, addr, reg_val, mask, value) ==
    max14906_reg_write(w, c, addr, UpdateValue(reg_val, mask, value))

RaceAddrs == {MAX14906_SETOUT_REG, MAX14906_CONFIG_DO_REG}
\* disjoint masks of the two accessors
MaskPairs == {<<3, 12>>, <<240, 15>>}
RaceVals == {0, 90, 255}

\* both accessors call max14906_reg_update on the same register
RaceBegin ==
    /\ Live /\ op.name = "init"
    /\ \E addr \in RaceAddrs, m \in MaskPairs, v1 \in RaceVals, v2 \in RaceVals :
          CommitAll(World, Op("reg_update", 0, addr, 0, FALSE, NoFail), ncalls,
                    [a \in Accessors |->
                        [Idle EXCEPT !.pc = "read", !.addr = addr, !.mask = m[a],
                                     !.val = IF a = 1 THEN v1 ELSE v2]])

\* accessor a's read transfer
AccRead(a) ==
    /\ Live /\ acc[a].pc = "read"
    /\ \E c \in XferPlans(1, crc_en, {4}) :
       \E r \in {UpdateReadStep(World, c, acc[a].addr)} :
          CommitAll([r EXCEPT !.val = val],
                    Op("update_read", a, acc[a].addr, 0, FALSE, c), ncalls,
                    [acc EXCEPT ![a] =
                        IF r.ret # 0 THEN [@ EXCEPT !.pc = "done", !.ret = r.ret]
                        ELSE [@ EXCEPT !.pc = "write", !.reg_val = r.val]])

\* accessor a's write transfer; an accessor that has read and not yet written
\* now holds a stale reg_val
AccWrite(a) ==
    /\ Live /\ acc[a].pc = "write"
    /\ \E c \in XferPlans(1, FALSE, {}) :
       \E w \in {UpdateWriteStep(World, c, acc[a].addr, acc[a].reg_val,
                                 acc[a].mask, acc[a].val)} :
          CommitAll(w, Op("update_write", a, acc[a].addr, 0, FALSE, c), ncalls,
                    [b \in Accessors |->
                        IF b = a THEN [acc[b] EXCEPT !.pc = "done", !.ret = w.ret]
                        ELSE IF acc[b].pc = "write" /\ w.ret = 0
                        THEN [acc[b] EXCEPT !.raced = TRUE]
                        ELSE acc[b]])

NextRace ==
    \/ DoInitIo
    \/ RaceBegin
    \/ \E a \in Accessors : AccRead(a)
    \/ \E a \in Accessors : AccWrite(a)

SpecRace == Init /\ [][NextRace]_vars

BothDone == \A a \in Accessors : acc[a].pc = "done" /\ acc[a].ret = 0

\* the accessor's field of the register, and the value it asked for
Field(a) == And(regs[acc[a].addr], acc[a].mask)
Wanted(a) == And(acc[a].mask, acc[a].val)

\* C18: when two reg_update calls with disjoint masks on one register have
\* both returned 0 and no write to the register fell between the read and the
\* write of either, both fields hold the values asked for; otherwise only the
\* field of the accessor that wrote last is certain to (the other update can
\* be lost: C18_Witness).
C18_UpdateRace ==
    BothDone
    => /\ (\A a \in Accessors : ~acc[a].raced)
             => \A a \in Accessors : Field(a) = Wanted(a)
       /\ \E a \in Accessors : Field(a) = Wanted(a)

\* both calls returned 0 and the update of accessor 1 is lost
C18_Witness ==
    /\ BothDone /\ acc[2].raced /\ ~acc[1].raced
    /\ Field(2) = Wanted(2)
    /\ Field(1) # Wanted(1)
    /\ Field(1) = And(acc[2].reg_val, acc[1].mask)

\* register and RW bit of the transfers of a complete max14906_init, in order:
\* four fault reads, then per channel the read-modify-writes of CONFIG_DO
\* and SETOUT (ch_func HIGH_Z) and of CONFIG_CURR_LIM (climit_set)
InitSteps ==
    <<<<MAX14906_OVR_LD_REG, 0>>, <<MAX14906_OPN_WIR_FLT_REG, 0>>,
      <<MAX14906_SHD_VDD_FLT_REG, 0>>, <<MAX14906_GLOBAL_FLT_REG, 0>>>>
    \o [i \in 1 .. 6 * MAX14906_CHANNELS |->
          <<<<MAX14906_CONFIG_DO_REG, MAX14906_SETOUT_REG,
              MAX14906_CONFIG_CURR_LIM>>[((i - 1) % 6) \div 2 + 1],
            (i - 1) % 2>>]

XferStep(e) ==
    <<no_os_field_get(MAX14906_ADDR_MASK, e.tx[1]), And(e.tx[1], MAX14906_RW_MASK)>>

Before(k1, k2) ==
    \A i \in DOMAIN trace, j \in DOMAIN trace :
       (trace[i].kind = k1 /\ trace[j].kind = k2) => i < j

\* C19: max14906_init initializes the transport, then drives the enable line
\* (always when the line is present), then reads OVR_LD, OPN_WIR_FLT,
\* SHD_VDD_FLT and GLOBAL_FLT without ever writing them, then configures
\* channels 0..3 in turn, ch_func(HIGH_Z) before climit_set: its transfers are
\* a prefix of that sequence, complete when it returns 0, and none precedes
\* the transport initialization or the enable-line drive.
C19_InitOrder ==
    (op.name = "init")
    => /\ Len(Xfers(trace)) <= InitXfers
       /\ \A i \in DOMAIN Xfers(trace) : XferStep(Xfers(trace)[i]) = InitSteps[i]
       /\ ret = 0 => Len(Xfers(trace)) = InitXfers
       /\ Before("calloc", "spi_init") /\ Before("spi_init", "gpio_get")
       /\ Before("gpio_get", "gpio_set_HIGH")
       /\ Before("spi_init", "xfer") /\ Before("gpio_set_HIGH", "xfer")
       /\ Xfers(trace) # <<>> => Returned("spi_init", 0)
       /\ (Xfers(trace) # <<>> /\ op.c.gpioGet = "ok")
             => Returned("gpio_set_HIGH", 0)

C19_Witness ==
    /\ op.name = "init" /\ ret = 0 /\ enable = "held"
    /\ Len(trace) = InitXfers + 4
    /\ EventKinds[3] = "gpio_get" /\ EventKinds[4] = "gpio_set_HIGH"
    /\ XferStep(trace[8]) = <<MAX14906_GLOBAL_FLT_REG, 0>>
    /\ XferStep(trace[Len(trace)]) = <<MAX14906_CONFIG_CURR_LIM, 1>>

(* ------------------------------------------------------------------ *)
(* CRC5: both functions applied to every two-byte input                 *)
(* ------------------------------------------------------------------ *)
\* the caller fills data[0], data[1] and calls max14906_crc_encode(data) and
\* max14906_crc_decode(data); op.arg keeps the two results
CrcApply ==
    /\ op.name = "none"
    /\ \E b0 \in Byte, b1 \in Byte :
       \E w \in {[World EXCEPT !.buff = <<b0, b1, 0>>]} :
          Commit(w, Op("crc", 0, 0,
                       [enc |-> max14906_crc_encode(w.buff),
                        dec |-> max14906_crc_decode(w.buff)], FALSE, NoFail),
                 ncalls)

NextCrc ==
    \/ CrcApply

SpecCrc == Init /\ [][NextCrc]_vars

\* the reference division: one input bit
RefShift(r, bit) ==
    IF bit # r \div 16 THEN Xor((2 * r) % 32, 21) ELSE (2 * r) % 32

RECURSIVE RefDivide(_, _)
RefDivide(r, bits) ==
    IF bits = <<>> THEN r ELSE RefDivide(RefShift(r, Head(bits)), Tail(bits))

\* the low n bits of a byte, most significant first
BitsOf(byte, n) == [i \in 1 .. n |-> (byte \div 2 ^ (n - i)) % 2]

RefEncode(d) == RefDivide(31, BitsOf(d[1], 8) \o BitsOf(d[2], 8) \o <<0, 0, 0>>)
RefDecode(d) == RefDivide(31, BitsOf(d[1], 6) \o BitsOf(d[2], 8) \o <<0, 0, 0>>)

\* C20: for every two-byte input, max14906_crc_encode and max14906_crc_decode
\* equal the bit-serial division that starts at 0x1F, takes the bits most
\* significant first (encode all 8 bits of byte 0, decode its bits 5..0), then
\* the 8 bits of byte 1 and 3 zero bits, shifting within 5 bits and XORing
\* 0x15 when the input bit differs from the top bit; the result is in 0..31.
C20_CrcReference ==
    (op.name = "crc")
    => /\ op.arg.enc = RefEncode(buff) /\ op.arg.enc \in 0 .. 31
       /\ op.arg.dec = RefDecode(buff) /\ op.arg.dec \in 0 .. 31

C20_Witness ==
    /\ op.name = "crc" /\ buff[1] = 193 /\ buff[2] = 165
    /\ op.arg.enc = RefEncode(<<193, 165>>)
    /\ op.arg.dec = RefDecode(<<1, 165>>)
    /\ op.arg.enc # RefEncode(<<1, 165>>)
    /\ op.arg.enc # op.arg.dec

\* C21: when no_os_gpio_get_optional returns an error in max14906_init, init
\* returns an error, has removed the transport and freed the descriptor, and
\* the caller gets no descriptor; it never returns 0.
C21_EnableAcquireFails ==
    (op.name = "init" /\ Returned("gpio_get", -EIO))
    => /\ ret # 0
       /\ comm_desc = "closed" /\ mem = "freed" /\ desc = "null"

(* ------------------------------------------------------------------ *)
(* Responses with one covered bit flipped, through the check of         *)
(* max14906_reg_read (lines 201-212)                                    *)
(* ------------------------------------------------------------------ *)
\* the bits max14906_crc_decode covers: bits 5..0 of byte 0, the data byte
CoveredFlips ==
    {<<2 ^ k, 0>> : k \in 0 .. 5} \cup {<<0, 2 ^ k>> : k \in 0 .. 7}
NoFlip == <<0, 0>>
StatusBytes == 0 .. 63

\* the device answers <<b0, b1>> with its CRC; the frame arrives with the
\* bits of f inverted and max14906_reg_read checks and delivers it
ReadFlipped ==
    /\ Live /\ crc_en /\ op.name = "init"
    /\ \E b0 \in StatusBytes, b1 \in Byte, f \in CoveredFlips \cup {NoFlip} :
       \E x \in {[World EXCEPT
                    !.buff = <<Xor(b0, f[1]), Xor(b1, f[2]),
                               max14906_crc_decode(<<b0, b1>>)>>,
                    !.ret = 0]} :
          Commit(ReadResult(x),
                 Op("read_flipped", 0, MAX14906_DOILEVEL_REG,
                    [sent |-> <<b0, b1>>, flip |-> f], FALSE, NoFail),
                 ncalls)

NextFlip ==
    \/ DoInitIo
    \/ ReadFlipped

SpecFlip == Init /\ [][NextFlip]_vars

\* C22: with CRC enabled, a response whose CRC byte was right for the bytes
\* the device sent and in which one covered bit was flipped has a recomputed
\* CRC5 different from the received one; max14906_reg_read returns -EINVAL
\* and leaves the caller's value as it was.
C22_SingleBitFlip ==
    (op.name = "read_flipped" /\ op.arg.flip \in CoveredFlips)
    => /\ max14906_crc_decode(buff) # buff[3]
       /\ max14906_crc_decode(buff) # max14906_crc_decode(op.arg.sent)
       /\ ret = -EINVAL
       /\ val = pre.val

C22_Witness ==
    /\ op.name = "read_flipped" /\ op.arg.sent = <<5, 165>>
    /\ op.arg.flip = <<0, 4>> /\ buff[2] = 161
    /\ ret = -EINVAL /\ val # 161

\* C23: no transfer is issued after the transport was removed, the transport
\* is removed at most once, and whenever max14906_remove returns an error the
\* descriptor still holds its transport, so that remove can be called again.
C23_RemoveRetrySafe ==
    /\ \A i, j \in DOMAIN trace :
          (trace[i].kind = "spi_remove" /\ trace[i].ret = 0 /\ IsXfer(trace[j]))
          => j < i
    /\ Count("spi_remove") <= 1
    /\ (op.name = "remove" /\ ~op.null /\ ret # 0)
       => (comm_desc = "open" /\ mem = "live")

(* ------------------------------------------------------------------ *)
(* JESD204 core reset (projects/ad9081/src/RG_custom.h): resetCore      *)
(* polls the self-clearing bit 0 of the Reset register                  *)
(* ------------------------------------------------------------------ *)
maxTries == 50

\* the Reset register, bits 1..0 kept
RegValues == 0 .. 3

\* *address = (val & ~(1U << bitIndex)) | ((value & 0x01) << bitIndex)
writeBit(reg, bitIndex, value) ==
    Or(AndNot(reg, 2 ^ bitIndex), And(value, 1) * 2 ^ bitIndex)

\* ((*address) >> bitIndex) & 0x01
readBit(reg, bitIndex) == And(reg \div 2 ^ bitIndex, 1)

driver ==
    <<regs, buff, crc_en, chip_address, mem, comm_desc, enable, desc, val, ret,
      trace, op, pre, ncalls, requested, acc>>

\* resetCore is entered with any register content: tries = 0, writeBit(Reset, 0, 1)
ResetBegin ==
    /\ core.pc = "idle"
    /\ \E r \in RegValues :
          core' = [core EXCEPT !.pc = "loop", !.tries = 0,
                               !.Reset = writeBit(r, 0, 1)]
    /\ UNCHANGED driver

\* the core finishes its reset and clears the bit by itself
CoreClears ==
    /\ core.pc = "loop" /\ readBit(core.Reset, 0) = 1
    /\ core' = [core EXCEPT !.Reset = writeBit(@, 0, 0)]
    /\ UNCHANGED driver

\* variant: the limit is tested with <=
LoopGoesInclusive(b, tries) == b # 0 /\ tries <= maxTries

\* readBit(Reset, 0) && tries < maxTries, b being the bit read
LoopGoes(b, tries) == b # 0 /\ tries < maxTries

\* one evaluation of the loop condition; tries++ if it is true
ResetTest ==
    /\ core.pc = "loop"
    /\ \E b \in {readBit(core.Reset, 0)} :
          core' = [core EXCEPT
                     !.reads = @ + 1, !.last = b,
                     !.tries = IF LoopGoes(b, core.tries) THEN @ + 1 ELSE @,
                     !.pc = IF LoopGoes(b, core.tries) THEN "loop" ELSE "check"]
    /\ UNCHANGED driver

\* if (tries >= maxTries) return fail; return success
ResetReturn ==
    /\ core.pc = "check"
    /\ core' = [core EXCEPT
                  !.pc = "done",
                  !.status = IF core.tries >= maxTries THEN "fail" ELSE "success"]
    /\ UNCHANGED driver

NextReset ==
    \/ ResetBegin
    \/ CoreClears
    \/ ResetTest
    \/ ResetReturn

SpecReset == Init /\ [][NextReset]_vars

\* C24: resetCore reads the reset bit at most maxTries + 1 times and, once it
\* has returned, it returned fail exactly when its last read saw the bit set
\* (success whenever a read saw the bit cleared).
C24_ResetCore ==
    /\ core.reads <= maxTries + 1
    /\ core.pc = "done"
       => (core.status = "fail" <=> core.last = 1)

\* C24 (amended): resetCore reads the reset bit at most maxTries + 1 times
\* and, once it has returned, it returned fail exactly when its first
\* maxTries reads all saw the bit set, whatever the read after them saw;
\* it returned success exactly when one of the first maxTries reads saw the
\* bit cleared, and that read was its last.
C24_ResetTimeout ==
    /\ core.reads <= maxTries + 1
    /\ core.pc = "done"
       => /\ core.status = "fail" <=> core.reads = maxTries + 1
          /\ core.status = "success" <=> (core.reads <= maxTries /\ core.last = 0)
          /\ core.status \in {"fail", "success"}

\* the limit is reached and the read after it sees the bit cleared
C24_Witness ==
    /\ core.pc = "done" /\ core.status = "fail"
    /\ core.reads = maxTries + 1 /\ core.last = 0 /\ core.tries = maxTries
====
